---- MODULE Spec2Model ----
(***************************************************************************)
(* Quadrature-point gradient kernels of fem/qinterp/grad.hpp:              *)
(* Derivatives1D, Derivatives2D and Derivatives3D.                         *)
(*                                                                         *)
(* Spec       one kernel launch per (layout, transform) instantiation on   *)
(*            fixed inputs; the scratch tiles are flat memory objects.     *)
(* SpecGroup  the threads of one cooperative group, interleaved, with the  *)
(*            barriers of the kernel body.                                 *)
(***************************************************************************)
EXTENDS Integers, Sequences, FiniteSets, TLC

VARIABLES cfg, b, g, x, j, y, wr, oob, done,
          gk, pc, bar, smem, wlog, stale, out

vars == <<cfg, b, g, x, j, y, wr, oob, done, gk, pc, bar, smem, wlog, stale, out>>

(***************************************************************************)
(* Bounds of the model.                                                    *)
(***************************************************************************)
MAX_D1D == 3
MAX_Q1D == 3
MaxVDIM == 2
MaxNE == 2
MaxNBZ == 2
MaxSeed == 1
MaxThreads == 8

(***************************************************************************)
(* Reshape / DeviceTensor: column-major, the first index is the fastest.   *)
(***************************************************************************)
RECURSIVE Idx(_, _)
Idx(dims, ix) ==
  IF dims = <<>> THEN 0
  ELSE Head(ix) + Head(dims) * Idx(Tail(dims), Tail(ix))

RECURSIVE Prod(_)
Prod(dims) == IF dims = <<>> THEN 1 ELSE Head(dims) * Prod(Tail(dims))

Pow(n, k) == Prod([i \in 1..k |-> n])

RECURSIVE SumOver(_, _)
SumOver(f, S) ==
  IF S = {} THEN 0
  ELSE LET i == CHOOSE i \in S : TRUE IN f[i] + SumOver(f, S \ {i})

Layouts == {"byNODES", "byVDIM"}
Variants == [layout : Layouts, phys : BOOLEAN]

(***************************************************************************)
(* The template instantiation and the runtime arguments of one launch.     *)
(* tmpl: T_D1D and T_Q1D are given (tile sizes are the actual sizes);      *)
(* otherwise the tiles are sized from MAX_D1D and MAX_Q1D.                 *)
(***************************************************************************)
MD1(c) == IF c.tmpl THEN c.D1D ELSE MAX_D1D
MQ1(c) == IF c.tmpl THEN c.Q1D ELSE MAX_Q1D

\* const int SDIM = GRAD_PHYS ? sdim : 2;   (1D and 3D take sdim as is)
SDIMof(c, phys) == IF c.dim = 2 /\ ~phys THEN 2 ELSE c.sdim

Configs ==
  { c \in [dim : 1..3, D1D : 1..MAX_D1D, Q1D : 1..MAX_Q1D, VDIM : 1..MaxVDIM,
           NE : 1..MaxNE, sdim : 1..3, tmpl : BOOLEAN, NBZ : 1..MaxNBZ] :
      /\ c.sdim >= c.dim
      /\ (c.dim # 2 => c.NBZ = 1)
      /\ (c.dim = 1 => ~c.tmpl) }

QDims(c) == [i \in 1..c.dim |-> c.Q1D]
DDims(c) == [i \in 1..c.dim |-> c.D1D]
NQ(c) == Pow(c.Q1D, c.dim)
ND(c) == Pow(c.D1D, c.dim)
QPts(c) == { t \in [1..c.dim -> 0..c.Q1D - 1] : TRUE }
Nodes(c) == { t \in [1..c.dim -> 0..c.D1D - 1] : TRUE }

(***************************************************************************)
(* Views of the caller's buffers.                                          *)
(***************************************************************************)
\* b = Reshape(b_, Q1D, D1D), g = Reshape(g_, Q1D, D1D)
TabAt(t, c, q, d) == t[Idx(<<c.Q1D, c.D1D>>, <<q, d>>)]

\* x = Reshape(x_, D1D, ..., D1D, VDIM, NE)
XAt(xb, c, n, vc, e) == xb[Idx(DDims(c) \o <<c.VDIM, c.NE>>, n \o <<vc, e>>)]

\* j = Reshape(j_, Q1D, ..., Q1D, SDIM, dim, NE); the 1D view has no column index
JDims(c, sd) == IF c.dim = 1 THEN <<c.Q1D, sd, c.NE>>
                ELSE QDims(c) \o <<sd, c.dim, c.NE>>
JAt(jb, c, sd, q, row, col, e) ==
  IF c.dim = 1 THEN jb[Idx(JDims(c, sd), q \o <<row, e>>)]
  ELSE jb[Idx(JDims(c, sd), q \o <<row, col, e>>)]

(***************************************************************************)
(* linalg/kernels.hpp: closed-form inverse and left inverse of the local   *)
(* Jacobian, column-major (entry (r,c) of an h x w matrix is at r + h*c).  *)
(* The inputs of the model have determinant +1 or -1, for which 1.0/d is   *)
(* exact.                                                                  *)
(***************************************************************************)
Recip(d) == CASE d = 1 -> 1 [] d = -1 -> -1

Det2(A) == A[0] * A[3] - A[1] * A[2]

Det3(A) == A[0] * (A[4] * A[8] - A[5] * A[7])
         - A[3] * (A[1] * A[8] - A[2] * A[7])
         + A[6] * (A[1] * A[5] - A[2] * A[4])

\* kernels::CalcInverse<2>
CalcInverse2(A) ==
  LET t == Recip(Det2(A))
  IN  [k \in 0..3 |-> CASE k = 0 -> A[3] * t
                        [] k = 1 -> (0 - A[1]) * t
                        [] k = 2 -> (0 - A[2]) * t
                        [] k = 3 -> A[0] * t]

\* kernels::CalcInverse<3>
CalcInverse3(A) ==
  LET t == Recip(Det3(A))
  IN  [k \in 0..8 |->
        CASE k = 0 -> (A[4] * A[8] - A[5] * A[7]) * t
          [] k = 3 -> (A[5] * A[6] - A[3] * A[8]) * t
          [] k = 6 -> (A[3] * A[7] - A[4] * A[6]) * t
          [] k = 1 -> (A[2] * A[7] - A[1] * A[8]) * t
          [] k = 4 -> (A[0] * A[8] - A[2] * A[6]) * t
          [] k = 7 -> (A[1] * A[6] - A[0] * A[7]) * t
          [] k = 2 -> (A[1] * A[5] - A[2] * A[4]) * t
          [] k = 5 -> (A[2] * A[3] - A[0] * A[5]) * t
          [] k = 8 -> (A[0] * A[4] - A[1] * A[3]) * t]

\* kernels::CalcLeftInverse<2,1> and <3,1>: J^t / (J.J)
CalcLeftInverse1(A, h) ==
  LET t == Recip(SumOver([k \in 0..h - 1 |-> A[k] * A[k]], 0..h - 1))
  IN  [k \in 0..h - 1 |-> A[k] * t]

\* kernels::CalcLeftInverse<3,2>: (J^t J)^{-1} J^t, a 2 x 3 matrix
CalcLeftInverse32(A) ==
  LET e0 == A[0] * A[0] + A[1] * A[1] + A[2] * A[2]
      g0 == A[3] * A[3] + A[4] * A[4] + A[5] * A[5]
      f0 == A[0] * A[3] + A[1] * A[4] + A[2] * A[5]
      t == Recip(e0 * g0 - f0 * f0)
      e1 == e0 * t
      g1 == g0 * t
      f1 == f0 * t
  IN  [k \in 0..5 |->
        CASE k = 0 -> A[0] * g1 - A[3] * f1
          [] k = 1 -> A[3] * e1 - A[0] * f1
          [] k = 2 -> A[1] * g1 - A[4] * f1
          [] k = 3 -> A[4] * e1 - A[1] * f1
          [] k = 4 -> A[2] * g1 - A[5] * f1
          [] k = 5 -> A[5] * e1 - A[2] * f1]

(***************************************************************************)
(* Output views.  y = Q_LAYOUT == byNODES ? Reshape(y_, Q.., VDIM, SDIM,   *)
(* NE) : Reshape(y_, VDIM, SDIM, Q.., NE)                                  *)
(***************************************************************************)
YSize(c, sd) == NQ(c) * c.VDIM * sd * c.NE

\* the flat index of (q, vc, d) in the region of element 0
YIndexNoElem(c, layout, sd, q, vc, d, e) ==
  IF layout = "byNODES"
    THEN Idx(QDims(c) \o <<c.VDIM, sd, c.NE>>, q \o <<vc, d, 0>>)
    ELSE Idx(<<c.VDIM, sd>> \o QDims(c) \o <<c.NE>>, <<vc, d>> \o q \o <<0>>)

YIndex(c, layout, sd, q, vc, d, e) ==
  IF layout = "byNODES"
    THEN Idx(QDims(c) \o <<c.VDIM, sd, c.NE>>, q \o <<vc, d, e>>)
    ELSE Idx(<<c.VDIM, sd>> \o QDims(c) \o <<c.NE>>, <<vc, d>> \o q \o <<e>>)

\* a write event: the flat index, the value and the work unit (block, tz, ty, tx)
Wev(i, v, u) == [idx |-> i, val |-> v, unit |-> u]

\* the stores of a launch as a function of the flat index
RECURSIVE FnOf(_)
FnOf(S) ==
  IF S = {} THEN <<>>
  ELSE LET p == CHOOSE p \in S : TRUE IN (p[1] :> p[2]) @@ FnOf(S \ {p})

\* the stores to a buffer as a function of the flat index, for indices in lo..hi
RECURSIVE Stores(_, _, _)
Stores(S, lo, hi) ==
  IF S = {} THEN <<>>
  ELSE IF lo >= hi THEN LET p == CHOOSE p \in S : TRUE IN p[1] :> p[2]
  ELSE LET mid == (lo + hi) \div 2
       IN  CHOOSE f \in { Stores(L, lo, mid) @@ Stores(R, mid + 1, hi) :
                          L \in { { p \in S : p[1] <= mid } },
                          R \in { { p \in S : p[1] > mid } } } : TRUE

(***************************************************************************)
(* Derivatives1D                                                           *)
(***************************************************************************)
\* du[0] += g(q, d) * x(d, c, e)
RefGrad1D(c, tb, tg, xb, q, vc, e) ==
  SumOver([d \in 0..c.D1D - 1 |-> TabAt(tg, c, q, d) * XAt(xb, c, <<d>>, vc, e)],
          0..c.D1D - 1)

\* the GRAD_PHYS branch of Derivatives1D
Phys1D(c, jb, du0, q, e) ==
  IF c.sdim = 1 THEN <<du0 * Recip(JAt(jb, c, 1, <<q>>, 0, 0, e)), 0, 0>>
  ELSE LET Jloc == [k \in 0..c.sdim - 1 |-> JAt(jb, c, c.sdim, <<q>>, k, 0, e)]
           Jinv == CalcLeftInverse1(Jloc, c.sdim)
       IN  [k \in 1..3 |-> IF k <= c.sdim THEN Jinv[k - 1] * du0 ELSE 0]

\* the values du[0..2] of one (e, c, q)
Du1D(c, v, tb, tg, jb, xb, q, vc, e) ==
  LET du0 == RefGrad1D(c, tb, tg, xb, q, vc, e)
  IN  IF v.phys THEN Phys1D(c, jb, du0, q, e) ELSE <<du0, 0, 0>>

\* mfem::forall(NE, ...): the write events of the whole launch
Derivatives1D(c, v, tb, tg, jb, xb) ==
  { Wev(YIndex(c, v.layout, c.sdim, <<q>>, vc, d, e),
        Du1D(c, v, tb, tg, jb, xb, q, vc, e)[d + 1],
        <<e, 0, 0, 0>>) :
      e \in 0..c.NE - 1, vc \in 0..c.VDIM - 1, q \in 0..c.Q1D - 1, d \in 0..c.sdim - 1 }

(***************************************************************************)
(* Execution groups.  MFEM_FOREACH_THREAD(i,x,N) is                        *)
(*   for (i = threadIdx.x; i < N; i += blockDim.x)                         *)
(* forall_2D_batch(NE, Q1D, Q1D, NBZ) launches ceil(NE/NBZ) groups of      *)
(* Q1D x Q1D x NBZ threads with e = group*NBZ + tidz (threads with e >= NE *)
(* return); forall_3D(NE, Q1D, Q1D, Q1D) launches one group of Q1D^3       *)
(* threads per element.                                                    *)
(***************************************************************************)
ForeachThread(t, bd, N) == { i \in 0..N - 1 : i % bd = t }

\* the indices of 0..N-1 that some thread of a dimension of bd threads visits
Covered(bd, N) == UNION { ForeachThread(t, bd, N) : t \in 0..bd - 1 }

\* the (thread, index) pairs of a dimension of bd threads
ThreadIter(bd, N) == { p \in (0..bd - 1) \X (0..N - 1) : p[2] \in ForeachThread(p[1], bd, N) }

\* NE / NBZ rounded down
NGroupsTruncated(c) == c.NE \div c.NBZ

NGroups(c) == (c.NE + c.NBZ - 1) \div c.NBZ

\* the z thread indices of a 2D group that own an element
ActiveZ(c, grp) == { tz \in 0..c.NBZ - 1 : grp * c.NBZ + tz < c.NE }

(***************************************************************************)
(* Scratch tiles.  A MFEM_SHARED array is one memory object; a tensor view *)
(* of it is a tile: a base offset in the object, the slots allocated to it *)
(* and the extents it is indexed with.                                     *)
(*   2D: BG[2][MQ1*MD1], XY[NBZ][MD1*MD1], s_DQ[2][NBZ][MD1*MQ1]           *)
(*   3D: BG[2][MQ1*MD1], sm0[3][MQ1*MQ1*MQ1], sm1[3][MQ1*MQ1*MQ1]          *)
(***************************************************************************)
BGTile(c) == MQ1(c) * MD1(c)
\* DeviceMatrix B(BG[0], D1D, Q1D), G(BG[1], D1D, Q1D)
BAddr(c, d, q) == Idx(<<c.D1D, c.Q1D>>, <<d, q>>)
GAddr(c, d, q) == BGTile(c) + Idx(<<c.D1D, c.Q1D>>, <<d, q>>)

XYTile(c) == MD1(c) * MD1(c)
\* DeviceTensor<2> X((double*)(XY+tidz), D1D, D1D)
X2Addr(c, tz, dx, dy) == tz * XYTile(c) + Idx(<<c.D1D, c.D1D>>, <<dx, dy>>)

DQTile(c) == MD1(c) * MQ1(c)
\* DeviceTensor<2> DQk(s_DQ[k][tidz], D1D, Q1D)
DQAddr(c, k, tz, dy, qx) ==
  (k * c.NBZ + tz) * DQTile(c) + Idx(<<c.D1D, c.Q1D>>, <<dy, qx>>)

SmTile(c) == MQ1(c) * MQ1(c) * MQ1(c)
\* DeviceTensor<3> X(sm0[2], D1D, D1D, D1D)
X3Addr(c, dx, dy, dz) == 2 * SmTile(c) + Idx(<<c.D1D, c.D1D, c.D1D>>, <<dx, dy, dz>>)
\* DeviceTensor<3> DDQk(sm0[k], D1D, D1D, Q1D), used as DDQk(dz,dy,qx)
DDQAddr(c, k, dz, dy, qx) ==
  k * SmTile(c) + Idx(<<c.D1D, c.D1D, c.Q1D>>, <<dz, dy, qx>>)
\* DeviceTensor<3> DQQk(sm1[k], D1D, Q1D, Q1D), used as DQQk(dz,qy,qx)
DQQAddr(c, k, dz, qy, qx) ==
  k * SmTile(c) + Idx(<<c.D1D, c.Q1D, c.Q1D>>, <<dz, qy, qx>>)

\* every scratch access of a kernel: <<object, tile, offset in the tile, slots of the tile>>
Accesses2D(c) ==
  { <<"BG", "B", BAddr(c, d, q), BGTile(c)>> : d \in 0..c.D1D - 1, q \in 0..c.Q1D - 1 }
  \cup { <<"XY", "X", X2Addr(c, 0, dx, dy), XYTile(c)>> :
           dx \in 0..c.D1D - 1, dy \in 0..c.D1D - 1 }
  \cup { <<"s_DQ", "DQ", DQAddr(c, 0, 0, dy, qx), DQTile(c)>> :
           dy \in 0..c.D1D - 1, qx \in 0..c.Q1D - 1 }

Accesses3D(c) ==
  { <<"BG", "B", BAddr(c, d, q), BGTile(c)>> : d \in 0..c.D1D - 1, q \in 0..c.Q1D - 1 }
  \cup { <<"sm0", "X", X3Addr(c, p[1], p[2], p[3]) - 2 * SmTile(c), SmTile(c)>> :
           p \in (0..c.D1D - 1) \X (0..c.D1D - 1) \X (0..c.D1D - 1) }
  \cup { <<"sm0", "DDQ", DDQAddr(c, 0, p[1], p[2], p[3]), SmTile(c)>> :
           p \in (0..c.D1D - 1) \X (0..c.D1D - 1) \X (0..c.Q1D - 1) }
  \cup { <<"sm1", "DQQ", DQQAddr(c, 0, p[1], p[2], p[3]), SmTile(c)>> :
           p \in (0..c.D1D - 1) \X (0..c.Q1D - 1) \X (0..c.Q1D - 1) }

Accesses(c) == IF c.dim = 2 THEN Accesses2D(c)
               ELSE IF c.dim = 3 THEN Accesses3D(c) ELSE {}

\* some access of the kernel falls outside the slots of its tile
OutOfTile(c) == \E a \in Accesses(c) : a[3] >= a[4]

\* some access to a tile of the object falls outside the tile: the tiles of
\* the object alias, or the access leaves the object
Hazard(c, obj) == \E a \in Accesses(c) : a[1] = obj /\ a[3] >= a[4]

Hazards(c) == [o \in {"BG", "XY", "s_DQ", "sm0", "sm1"} |-> Hazard(c, o)]

(***************************************************************************)
(* The content of a tile is a function of the tensor index.  An entry no   *)
(* thread has written is undefined (nd.junk).  When the accesses to an     *)
(* object leave their tiles the behaviour is undefined: a read of the      *)
(* object returns what was stored for that entry (nd.keep) or anything     *)
(* (nd.junk).  An entry holds the values of the tensors that share its     *)
(* index: (X), (B, G), (DQ0, DQ1), (DDQ0, DDQ1), (DQQ0, DQQ1, DQQ2).       *)
(***************************************************************************)
Nondet == { [junk |-> 0, keep |-> TRUE], [junk |-> 1, keep |-> FALSE] }

TRead(F, key, haz, nd) ==
  IF key \in DOMAIN F /\ (~haz \/ nd.keep) THEN F[key] ELSE <<nd.junk, nd.junk, nd.junk>>

\* kernels::internal::LoadBG<MD1,MQ1>(D1D,Q1D,b,g,BG): B(d,q) = b(q,d), G(d,q) = g(q,d)
LoadBG(c, bd, tb, tg) ==
  [p \in Covered(bd, c.D1D) \X Covered(bd, c.Q1D) |->
     <<TabAt(tb, c, p[2], p[1]), TabAt(tg, c, p[2], p[1])>>]

(***************************************************************************)
(* Derivatives2D                                                           *)
(***************************************************************************)
\* kernels::internal::LoadX<MD1,NBZ>(e,D1D,c,x,XY): X(dx,dy) = x(dx,dy,c,e)
LoadX2D(c, grp, vc, xb, XY) ==
  [p \in ActiveZ(c, grp) \X Covered(c.Q1D, c.D1D) \X Covered(c.Q1D, c.D1D) |->
     <<XAt(xb, c, <<p[2], p[3]>>, vc, grp * c.NBZ + p[1])>>] @@ XY

\* first stage, keyed (tz, dy, qx):
\* DQ0(dy,qx) = sum_dx X(dx,dy) B(dx,qx), DQ1(dy,qx) = sum_dx X(dx,dy) G(dx,qx)
Stage1_2D(c, grp, BG, XY, DQ, hz, nd) ==
  LET XV(tz, dx, dy) == TRead(XY, <<tz, dx, dy>>, hz.XY, nd)[1]
      BV(dx, qx) == TRead(BG, <<dx, qx>>, hz.BG, nd)
  IN  [p \in ActiveZ(c, grp) \X Covered(c.Q1D, c.D1D) \X Covered(c.Q1D, c.Q1D) |->
         << SumOver([dx \in 0..c.D1D - 1 |-> XV(p[1], dx, p[2]) * BV(dx, p[3])[1]],
                    0..c.D1D - 1),
            SumOver([dx \in 0..c.D1D - 1 |-> XV(p[1], dx, p[2]) * BV(dx, p[3])[2]],
                    0..c.D1D - 1) >>] @@ DQ

\* second stage: du[0] += DQ1(dy,qx) * B(dy,qy); du[1] += DQ0(dy,qx) * G(dy,qy)
RefGrad2D(c, BG, DQ, tz, qx, qy, hz, nd) ==
  LET BV(dy, q) == TRead(BG, <<dy, q>>, hz.BG, nd)
      DQv(dy) == TRead(DQ, <<tz, dy, qx>>, hz.s_DQ, nd)
  IN  << SumOver([dy \in 0..c.D1D - 1 |-> DQv(dy)[2] * BV(dy, qy)[1]], 0..c.D1D - 1),
         SumOver([dy \in 0..c.D1D - 1 |-> DQv(dy)[1] * BV(dy, qy)[2]], 0..c.D1D - 1) >>

\* the GRAD_PHYS branch of Derivatives2D
Phys2D(c, jb, du, qx, qy, e) ==
  IF c.sdim = 2
    THEN LET Jloc == [k \in 0..3 |-> JAt(jb, c, 2, <<qx, qy>>, k % 2, k \div 2, e)]
             Jinv == CalcInverse2(Jloc)
         IN  << Jinv[0] * du[1] + Jinv[1] * du[2],
                Jinv[2] * du[1] + Jinv[3] * du[2], 0 >>
    ELSE LET Jloc == [k \in 0..5 |-> JAt(jb, c, 3, <<qx, qy>>, k % 3, k \div 3, e)]
             Jinv == CalcLeftInverse32(Jloc)
         IN  << Jinv[0] * du[1] + Jinv[1] * du[2],
                Jinv[2] * du[1] + Jinv[3] * du[2],
                Jinv[4] * du[1] + Jinv[5] * du[2] >>

\* second stage and scatter of one component: the write events to y.
\* p = (tz, (ty, qy), (tx, qx)); the work unit is thread (tz, ty, tx) of the group
Stage2_2D(c, v, grp, vc, jb, BG, DQ, hz, nd) ==
  LET sd == SDIMof(c, v.phys)
  IN  UNION { LET tz == p[1]
                  qy == p[2][2]
                  qx == p[3][2]
                  e == grp * c.NBZ + tz
                  ref == RefGrad2D(c, BG, DQ, tz, qx, qy, hz, nd)
                  du == IF v.phys THEN Phys2D(c, jb, ref, qx, qy, e)
                        ELSE <<ref[1], ref[2], 0>>
              IN  { Wev(YIndex(c, v.layout, sd, <<qx, qy>>, vc, d, e), du[d + 1],
                        <<grp, tz, p[2][1], p[3][1]>>) : d \in 0..sd - 1 } :
              p \in ActiveZ(c, grp) \X ThreadIter(c.Q1D, c.Q1D) \X ThreadIter(c.Q1D, c.Q1D) }

\* for (int c = 0; c < VDIM; ++c) { LoadX; stage 1; SYNC; stage 2; SYNC; }
RECURSIVE CompLoop2D(_, _, _, _, _, _, _, _, _, _, _)
CompLoop2D(c, v, grp, vc, jb, xb, BG, XY, DQ, hz, nd) ==
  IF vc >= c.VDIM THEN {}
  ELSE UNION { UNION { Stage2_2D(c, v, grp, vc, jb, BG, DQ1, hz, nd)
                         \cup CompLoop2D(c, v, grp, vc + 1, jb, xb, BG, XY1, DQ1, hz, nd) :
                       DQ1 \in { Stage1_2D(c, grp, BG, XY1, DQ, hz, nd) } } :
               XY1 \in { LoadX2D(c, grp, vc, xb, XY) } }

\* the body of forall_2D_batch for one execution group: its write events to y
Group2D(c, v, grp, tb, tg, jb, xb, nd) ==
  UNION { CompLoop2D(c, v, grp, 0, jb, xb, BG, <<>>, <<>>, hz, nd) :
            BG \in { LoadBG(c, c.Q1D, tb, tg) }, hz \in { Hazards(c) } }

Derivatives2D(c, v, tb, tg, jb, xb, nd) ==
  UNION { Group2D(c, v, grp, tb, tg, jb, xb, nd) : grp \in 0..NGroups(c) - 1 }

(***************************************************************************)
(* Derivatives3D                                                           *)
(***************************************************************************)
Cube(c, nz, ny, nx) == Covered(c.Q1D, nz) \X Covered(c.Q1D, ny) \X Covered(c.Q1D, nx)

\* kernels::internal::LoadX(e,D1D,c,x,X): X(dx,dy,dz) = x(dx,dy,dz,c,e); keyed (dz,dy,dx)
LoadX3D(c, e, vc, xb, X) ==
  [p \in Cube(c, c.D1D, c.D1D, c.D1D) |-> <<XAt(xb, c, <<p[3], p[2], p[1]>>, vc, e)>>] @@ X

\* first stage, keyed (dz, dy, qx):
\* DDQ0 = sum_dx X(dx,dy,dz) B(dx,qx), DDQ1 = sum_dx X(dx,dy,dz) G(dx,qx)
Stage1_3D(c, BG, X, DDQ, hz, nd) ==
  LET XV(dx, dy, dz) == TRead(X, <<dz, dy, dx>>, hz.sm0, nd)[1]
      BV(d, q) == TRead(BG, <<d, q>>, hz.BG, nd)
  IN  [p \in Cube(c, c.D1D, c.D1D, c.Q1D) |->
         << SumOver([dx \in 0..c.D1D - 1 |-> XV(dx, p[2], p[1]) * BV(dx, p[3])[1]],
                    0..c.D1D - 1),
            SumOver([dx \in 0..c.D1D - 1 |-> XV(dx, p[2], p[1]) * BV(dx, p[3])[2]],
                    0..c.D1D - 1) >>] @@ DDQ

\* second stage, keyed (dz, qy, qx): DQQ0 = sum_dy DDQ1 B(dy,qy),
\* DQQ1 = sum_dy DDQ0 G(dy,qy), DQQ2 = sum_dy DDQ0 B(dy,qy)
Stage2_3D(c, BG, DDQ, DQQ, hz, nd) ==
  LET BV(d, q) == TRead(BG, <<d, q>>, hz.BG, nd)
      DD(dz, dy, qx) == TRead(DDQ, <<dz, dy, qx>>, hz.sm0, nd)
  IN  [p \in Cube(c, c.D1D, c.Q1D, c.Q1D) |->
         << SumOver([dy \in 0..c.D1D - 1 |-> DD(p[1], dy, p[3])[2] * BV(dy, p[2])[1]],
                    0..c.D1D - 1),
            SumOver([dy \in 0..c.D1D - 1 |-> DD(p[1], dy, p[3])[1] * BV(dy, p[2])[2]],
                    0..c.D1D - 1),
            SumOver([dy \in 0..c.D1D - 1 |-> DD(p[1], dy, p[3])[1] * BV(dy, p[2])[1]],
                    0..c.D1D - 1) >>] @@ DQQ

\* third stage: u += DQQ0 B(dz,qz); v += DQQ1 B(dz,qz); w += DQQ2 G(dz,qz)
RefGrad3D(c, BG, DQQ, qx, qy, qz, hz, nd) ==
  LET BV(d, q) == TRead(BG, <<d, q>>, hz.BG, nd)
      DQ(dz) == TRead(DQQ, <<dz, qy, qx>>, hz.sm1, nd)
  IN  << SumOver([dz \in 0..c.D1D - 1 |-> DQ(dz)[1] * BV(dz, qz)[1]], 0..c.D1D - 1),
         SumOver([dz \in 0..c.D1D - 1 |-> DQ(dz)[2] * BV(dz, qz)[1]], 0..c.D1D - 1),
         SumOver([dz \in 0..c.D1D - 1 |-> DQ(dz)[3] * BV(dz, qz)[2]], 0..c.D1D - 1) >>

\* the GRAD_PHYS branch of Derivatives3D: Jloc[row+3*col] = j(qx,qy,qz,row,col,e)
Phys3D(c, jb, du, qx, qy, qz, e) ==
  LET Jloc == [k \in 0..8 |-> JAt(jb, c, 3, <<qx, qy, qz>>, k % 3, k \div 3, e)]
      Jinv == CalcInverse3(Jloc)
  IN  << Jinv[0] * du[1] + Jinv[1] * du[2] + Jinv[2] * du[3],
         Jinv[3] * du[1] + Jinv[4] * du[2] + Jinv[5] * du[3],
         Jinv[6] * du[1] + Jinv[7] * du[2] + Jinv[8] * du[3] >>

\* third stage and scatter of one component: the write events to y.
\* p = ((tz, qz), (ty, qy), (tx, qx)); the work unit is thread (tz, ty, tx) of group e
Stage3_3D(c, v, e, vc, jb, BG, DQQ, hz, nd) ==
  UNION { LET qz == p[1][2]
              qy == p[2][2]
              qx == p[3][2]
              ref == RefGrad3D(c, BG, DQQ, qx, qy, qz, hz, nd)
              du == IF v.phys THEN Phys3D(c, jb, ref, qx, qy, qz, e) ELSE ref
          IN  { Wev(YIndex(c, v.layout, 3, <<qx, qy, qz>>, vc, d, e), du[d + 1],
                    <<e, p[1][1], p[2][1], p[3][1]>>) : d \in 0..2 } :
          p \in ThreadIter(c.Q1D, c.Q1D) \X ThreadIter(c.Q1D, c.Q1D)
                  \X ThreadIter(c.Q1D, c.Q1D) }

\* for (int c = 0; c < VDIM; ++c) { LoadX; stage 1; SYNC; stage 2; SYNC; stage 3; SYNC; }
RECURSIVE CompLoop3D(_, _, _, _, _, _, _, _, _, _, _, _)
CompLoop3D(c, v, e, vc, jb, xb, BG, X, DDQ, DQQ, hz, nd) ==
  IF vc >= c.VDIM THEN {}
  ELSE UNION { UNION { UNION {
               Stage3_3D(c, v, e, vc, jb, BG, DQQ1, hz, nd)
                 \cup CompLoop3D(c, v, e, vc + 1, jb, xb, BG, X1, DDQ1, DQQ1, hz, nd) :
               DQQ1 \in { Stage2_3D(c, BG, DDQ1, DQQ, hz, nd) } } :
               DDQ1 \in { Stage1_3D(c, BG, X1, DDQ, hz, nd) } } :
               X1 \in { LoadX3D(c, e, vc, xb, X) } }

\* the body of forall_3D for element e: its write events to y
Group3D(c, v, e, tb, tg, jb, xb, nd) ==
  UNION { CompLoop3D(c, v, e, 0, jb, xb, BG, <<>>, <<>>, <<>>, hz, nd) :
            BG \in { LoadBG(c, c.Q1D, tb, tg) }, hz \in { Hazards(c) } }

Derivatives3D(c, v, tb, tg, jb, xb, nd) ==
  UNION { Group3D(c, v, e, tb, tg, jb, xb, nd) : e \in 0..c.NE - 1 }

(***************************************************************************)
(* The caller's inputs: basis tables, nodal coefficients, Jacobians.       *)
(* Tables "deg1" reproduce degree-1 polynomials on the nodes 0, 1, ... at  *)
(* the quadrature coordinate q + s; "generic" tables have no structure.    *)
(***************************************************************************)
InputKinds ==
  { in \in [tkind : {"deg1", "generic"}, xkind : {"affine", "dense"},
            jkind : {"identity", "unimodular"}, seed : 0..MaxSeed] :
      /\ (in.tkind = "deg1") = (in.xkind = "affine")
      /\ (in.tkind = "deg1") = (in.jkind = "identity") }

\* sum_k coef(k) * (second difference at k), a vector with zero sum and zero moment
NullVec(D, d, xq, off) ==
  SumOver([k \in 0..D - 3 |->
             (xq + k + off) * (CASE d = k -> 1 [] d = k + 1 -> 0 - 2
                                 [] d = k + 2 -> 1 [] OTHER -> 0)], 0..D - 3)

BTable(c, in) ==
  [i \in 0..c.Q1D * c.D1D - 1 |->
     LET q == i % c.Q1D
         d == i \div c.Q1D
         xq == q + in.seed
     IN  IF in.tkind = "generic" THEN (((q + 1) * (d + 2) + in.seed) % 3) - 1
         ELSE IF c.D1D = 1 THEN 1
         ELSE (CASE d = 0 -> 1 - xq [] d = 1 -> xq [] OTHER -> 0)
                + NullVec(c.D1D, d, xq, 1)]

GTable(c, in) ==
  [i \in 0..c.Q1D * c.D1D - 1 |->
     LET q == i % c.Q1D
         d == i \div c.Q1D
         xq == q + in.seed
     IN  IF in.tkind = "generic" THEN (((q + 2) * (d + 1) + 2 * in.seed + d) % 4) - 2
         ELSE IF c.D1D = 1 THEN 0
         ELSE (CASE d = 0 -> 0 - 1 [] d = 1 -> 1 [] OTHER -> 0)
                + NullVec(c.D1D, d, xq, 0)]

XBuffer(c, in) ==
  [i \in 0..ND(c) * c.VDIM * c.NE - 1 |->
     LET vc == (i \div ND(c)) % c.VDIM
         e == i \div (ND(c) * c.VDIM)
         n(k) == (i \div Pow(c.D1D, k - 1)) % c.D1D
     IN  IF in.xkind = "dense" THEN ((7 * i + (i \div 3) + in.seed) % 5) - 2
         ELSE in.seed + vc
                + SumOver([k \in 1..c.dim |-> (in.seed + k + vc - e) * n(k)], 1..c.dim)]

\* column-major sdim x dim integer matrices with unit determinant (of J^t J
\* when sdim > dim)
JList(sd, dm) ==
  CASE sd = 1 /\ dm = 1 -> << <<0 - 1>>, <<1>> >>
    [] sd = 2 /\ dm = 1 -> << <<0, 1>>, <<0 - 1, 0>> >>
    [] sd = 3 /\ dm = 1 -> << <<0, 0, 1>>, <<0, 0 - 1, 0>> >>
    [] sd = 2 /\ dm = 2 -> << <<1, 0, 1, 1>>, <<0, 1, 1, 0>>, <<2, 1, 1, 1>> >>
    [] sd = 3 /\ dm = 2 -> << <<1, 0, 0, 1, 1, 0>>, <<0, 0, 1, 0, 1, 0>> >>
    [] sd = 3 /\ dm = 3 -> << <<1, 0, 0, 1, 1, 0, 0, 1, 1>>,
                              <<0, 1, 0, 1, 0, 0, 0, 0, 1>>,
                              <<2, 1, 0, 1, 1, 0, 0, 1, 1>> >>

JBuffer(c, in) ==
  [i \in 0..NQ(c) * c.sdim * c.dim * c.NE - 1 |->
     LET q == i % NQ(c)
         r == (i \div NQ(c)) % c.sdim
         col == (i \div (NQ(c) * c.sdim)) % c.dim
         e == i \div (NQ(c) * c.sdim * c.dim)
         L == JList(c.sdim, c.dim)
     IN  IF in.jkind = "identity" THEN (IF r = col THEN 1 ELSE 0)
         ELSE L[((q + e + in.seed) % Len(L)) + 1][r + c.sdim * col + 1]]

(***************************************************************************)
(* Spec: the caller launches each instantiation (layout, transform) of the *)
(* kernel of its dimension once, on the same inputs.  y[v] and wr[v] are   *)
(* the stores to the output buffer of launch v: y[v] maps each flat index  *)
(* stored to to its value, wr[v] holds the (index, work unit) pairs;       *)
(* oob[v] tells whether the launch accessed a scratch tile outside its     *)
(* slots.                                                                  *)
(***************************************************************************)
Kernel(c, v, tb, tg, jb, xb, nd) ==
  CASE c.dim = 1 -> Derivatives1D(c, v, tb, tg, jb, xb)
    [] c.dim = 2 -> Derivatives2D(c, v, tb, tg, jb, xb, nd)
    [] c.dim = 3 -> Derivatives3D(c, v, tb, tg, jb, xb, nd)

IdleGroup ==
  /\ gk = "none" /\ pc = <<>> /\ bar = 0 /\ smem = <<>>
  /\ wlog = {} /\ stale = FALSE /\ out = {}

Init ==
  /\ cfg \in Configs
  /\ \E in \in InputKinds :
       /\ b = BTable(cfg, in)
       /\ g = GTable(cfg, in)
       /\ x = XBuffer(cfg, in)
       /\ j = JBuffer(cfg, in)
  /\ y = [v \in Variants |-> <<>>]
  /\ wr = [v \in Variants |-> {}]
  /\ oob = [v \in Variants |-> FALSE]
  /\ done = {}
  /\ IdleGroup

\* the caller launches the four instantiations one after the other
LaunchOrder ==
  << [layout |-> "byNODES", phys |-> FALSE], [layout |-> "byVDIM", phys |-> FALSE],
     [layout |-> "byNODES", phys |-> TRUE], [layout |-> "byVDIM", phys |-> TRUE] >>

Launch(v) ==
  /\ Cardinality(done) < Len(LaunchOrder)
  /\ v = LaunchOrder[Cardinality(done) + 1]
  /\ \E nd \in Nondet :
       \E W \in { Kernel(cfg, v, b, g, j, x, nd) } :
          /\ y' = [y EXCEPT ![v] = Stores({ <<w.idx, w.val>> : w \in W }, 0,
                                            YSize(cfg, SDIMof(cfg, v.phys)) - 1)]
          /\ wr' = [wr EXCEPT ![v] = { <<w.idx, w.unit>> : w \in W }]
  /\ oob' = [oob EXCEPT ![v] = OutOfTile(cfg)]
  /\ done' = done \cup {v}
  /\ UNCHANGED <<cfg, b, g, x, j, gk, pc, bar, smem, wlog, stale, out>>

Launch1D == \E v \in Variants : cfg.dim = 1 /\ Launch(v)
Launch2D == \E v \in Variants : cfg.dim = 2 /\ Launch(v)
Launch3D == \E v \in Variants : cfg.dim = 3 /\ Launch(v)

Next == Launch1D \/ Launch2D \/ Launch3D

Spec == Init /\ [][Next]_vars

(***************************************************************************)
(* Properties of the launches.                                             *)
(*                                                                         *)
(* y[v], wr[v] and oob[v] are set when launch v returns and never change   *)
(* afterwards, so a property of the launch that has just returned, holding *)
(* in every reachable state, holds of every launch in every state.         *)
(***************************************************************************)
JustReturned == IF done = {} THEN {} ELSE { LaunchOrder[Cardinality(done)] }

\* the logical indices of the output: quadrature point, component, element
Points(c) == QPts(c) \X (0..c.VDIM - 1) \X (0..c.NE - 1)

\* the output layouts as the data model states them.  by-nodes: quadrature
\* point fastest, then component, then derivative direction, then element;
\* by-vdim: component fastest, then direction, then quadrature point, then element
QFlat(c, q) == SumOver([k \in 1..c.dim |-> q[k] * Pow(c.Q1D, k - 1)], 1..c.dim)

YView(c, layout, sd, q, vc, d, e) ==
  IF layout = "byNODES"
    THEN QFlat(c, q) + NQ(c) * (vc + c.VDIM * (d + sd * e))
    ELSE vc + c.VDIM * (d + sd * (QFlat(c, q) + NQ(c) * e))

\* the direct, non-factorized contraction for derivative direction k (1..dim):
\* the derivative table along axis k, the value table along the other axes
Direct(c, tb, tg, xb, q, vc, e, k) ==
  SumOver([n \in Nodes(c) |->
             XAt(xb, c, n, vc, e)
               * Prod([i \in 1..c.dim |-> IF i = k THEN TabAt(tg, c, q[i], n[i])
                                          ELSE TabAt(tb, c, q[i], n[i])])],
          Nodes(c))

\* launch v stored at the logical index (q, vc, d, e) the value val
Holds(v, q, vc, d, e, val) ==
  LET i == YView(cfg, v.layout, SDIMof(cfg, v.phys), q, vc, d, e)
  IN  i \in DOMAIN y[v] /\ y[v][i] = val

\* the reference gradient of every point equals the direct contraction
RefExact(v) ==
  \A p \in Points(cfg) : \A d \in 0..cfg.dim - 1 :
     Holds(v, p[1], p[2], d, p[3], Direct(cfg, b, g, x, p[1], p[2], p[3], d + 1))

\* C1: with the transform off, Derivatives2D and Derivatives3D store at every
\* (element, component, quadrature point) the direct contraction of X with
\* G along exactly one axis and B along the others.
C1_SumFactorizationExact ==
  \A v \in JustReturned : (~v.phys /\ cfg.dim \in {2, 3}) => RefExact(v)

\* the same, for the launches whose scratch accesses stay in their tiles
SumFactorizationExactInTiles ==
  \A v \in JustReturned : (~v.phys /\ cfg.dim \in {2, 3} /\ ~oob[v]) => RefExact(v)

\* C4: every scratch access of Derivatives2D and Derivatives3D stays within
\* the slots allocated to its tile, for any D1D <= MD1 and Q1D <= MQ1.
C4_TilesWithinCapacity == \A v \in done : ~oob[v]

\* the 2D tiles are never left; the 3D tiles are left exactly when D1D > MQ1
TilesLeftOnlyIn3D ==
  \A v \in done : oob[v] <=> (cfg.dim = 3 /\ cfg.D1D > MQ1(cfg))

\* C3: the map from (element, component, direction, quadrature point) to the
\* flat output index is injective and every index is stored to by one work
\* unit only, for each kernel and both layouts.
C3_OutputWritesDisjoint ==
  \A v \in JustReturned :
     LET sd == SDIMof(cfg, v.phys)
         T == Points(cfg) \X (0..sd - 1)
     IN  /\ Cardinality({ YIndex(cfg, v.layout, sd, t[1][1], t[1][2], t[2], t[1][3]) :
                            t \in T }) = Cardinality(T)
         /\ Cardinality(wr[v]) = Cardinality({ p[1] : p \in wr[v] })

C3_Witness ==
  \E v \in done : /\ cfg.dim = 2 /\ cfg.NE = 2 /\ cfg.NBZ = 2 /\ cfg.VDIM = 2
                  /\ v.layout = "byVDIM"
                  /\ Cardinality(wr[v]) = YSize(cfg, SDIMof(cfg, v.phys))
                  /\ \E p1 \in wr[v], p2 \in wr[v] : p1[2][2] # p2[2][2]

\* C5: when a launch returns, every location of the output buffer has been
\* stored to, for any d1d, q1d, vdim, NE and batch size NBZ, and in 1D also
\* the directions d >= 1 of a launch with the transform off.
C5_OutputFullyWritten ==
  \A v \in JustReturned : DOMAIN y[v] = 0..YSize(cfg, SDIMof(cfg, v.phys)) - 1

C5_Witness ==
  \E v \in done : /\ cfg.dim = 2 /\ cfg.NE = 1 /\ cfg.NBZ = 2 /\ cfg.D1D > cfg.Q1D
                  /\ DOMAIN y[v] = 0..YSize(cfg, SDIMof(cfg, v.phys)) - 1

\* a 1D launch with the transform off and sdim > 1 stores 0 for d >= 1
ZeroDirections1D ==
  \A v \in JustReturned : (cfg.dim = 1 /\ ~v.phys) =>
     \A p \in Points(cfg) : \A d \in 1..cfg.sdim - 1 : Holds(v, p[1], p[2], d, p[3], 0)

\* the by-nodes stores re-laid-out into the by-vdim index order
Relayout(c, sd, yn) ==
  { << ((i \div NQ(c)) % c.VDIM)
         + c.VDIM * (((i \div (NQ(c) * c.VDIM)) % sd)
                       + sd * ((i % NQ(c)) + NQ(c) * (i \div (NQ(c) * c.VDIM * sd)))),
       yn[i] >> : i \in DOMAIN yn }

SameUnderRelayout(v) ==
  LET vn == [layout |-> "byNODES", phys |-> v.phys]
  IN  Relayout(cfg, SDIMof(cfg, v.phys), y[vn]) = { <<i, y[v][i]>> : i \in DOMAIN y[v] }

\* C6: on identical inputs the by-nodes and the by-vdim output of a kernel
\* hold the same value at every logical index: Y_nodes(q,c,d,e) = Y_vdim(c,d,q,e).
C6_LayoutsAgree ==
  \A v \in JustReturned : v.layout = "byVDIM" => SameUnderRelayout(v)

LayoutsAgreeInTiles ==
  \A v \in JustReturned : (v.layout = "byVDIM" /\ ~oob[v]) => SameUnderRelayout(v)

\* the Jacobian of every quadrature point of every element is the identity
IdentityJ == \A i \in DOMAIN j :
               j[i] = IF (i \div NQ(cfg)) % cfg.sdim
                          = (i \div (NQ(cfg) * cfg.sdim)) % cfg.dim THEN 1 ELSE 0

\* C7: with the transform on, sdim = dim and identity Jacobians, each kernel
\* stores the values it stores with the transform off.
C7_IdentityJacobian ==
  \A v \in JustReturned :
     (v.phys /\ cfg.sdim = cfg.dim /\ IdentityJ)
       => y[v] = y[[layout |-> v.layout, phys |-> FALSE]]

IdentityJacobianInTiles ==
  \A v \in JustReturned :
     (v.phys /\ cfg.sdim = cfg.dim /\ IdentityJ /\ ~oob[v])
       => y[v] = y[[layout |-> v.layout, phys |-> FALSE]]

\* the tables reproduce degree-1 polynomials on the nodes 0, 1, ..., D1D-1
Degree1Tables ==
  \A q \in 0..cfg.Q1D - 1 :
     /\ SumOver([d \in 0..cfg.D1D - 1 |-> TabAt(b, cfg, q, d)], 0..cfg.D1D - 1) = 1
     /\ SumOver([d \in 0..cfg.D1D - 1 |-> TabAt(g, cfg, q, d)], 0..cfg.D1D - 1) = 0
     /\ SumOver([d \in 0..cfg.D1D - 1 |-> TabAt(g, cfg, q, d) * d], 0..cfg.D1D - 1) = 1

UnitNode(c, k) == [i \in 1..c.dim |-> IF i = k THEN 1 ELSE 0]
Origin(c) == [i \in 1..c.dim |-> 0]
Slope(c, xb, vc, e, k) == XAt(xb, c, UnitNode(c, k), vc, e) - XAt(xb, c, Origin(c), vc, e)

\* the coefficients of (vc, e) are the samples of an affine function
AffineX(c, xb, vc, e) ==
  \A n \in Nodes(c) :
     XAt(xb, c, n, vc, e) = XAt(xb, c, Origin(c), vc, e)
        + SumOver([k \in 1..c.dim |-> Slope(c, xb, vc, e, k) * n[k]], 1..c.dim)

AffineExact(v) ==
  \A p \in Points(cfg) : AffineX(cfg, x, p[2], p[3]) =>
     \A d \in 0..cfg.dim - 1 :
        Holds(v, p[1], p[2], d, p[3], Slope(cfg, x, p[2], p[3], d + 1))

\* C8: with the transform off, affine nodal coefficients and tables that
\* reproduce degree-1 polynomials, the gradient stored at every quadrature
\* point is the constant gradient, direction 0 being d/dx, 1 d/dy, 2 d/dz.
C8_AffineGradient ==
  \A v \in JustReturned : (~v.phys /\ cfg.D1D >= 2 /\ Degree1Tables) => AffineExact(v)

AffineGradientInTiles ==
  \A v \in JustReturned :
     (~v.phys /\ cfg.D1D >= 2 /\ Degree1Tables /\ ~oob[v]) => AffineExact(v)

\* transpose(J) * g = du at every point, du taken from the launch of the same
\* layout with the transform off
InverseTranspose(v) ==
  LET v0 == [layout |-> v.layout, phys |-> FALSE]
      at(w, p, d) == y[w][YView(cfg, w.layout, cfg.dim, p[1], p[2], d, p[3])]
  IN  \A p \in Points(cfg) : \A i \in 0..cfg.dim - 1 :
         SumOver([k \in 0..cfg.dim - 1 |->
                    JAt(j, cfg, cfg.sdim, p[1], k, i, p[3]) * at(v, p, k)],
                 0..cfg.dim - 1) = at(v0, p, i)

\* C10: with the transform on and a square Jacobian (2D with sdim = 2, 3D),
\* the stored vector g satisfies transpose(J) * g = du.
C10_InverseTransposeApplied ==
  \A v \in JustReturned :
     (v.phys /\ cfg.dim \in {2, 3} /\ cfg.sdim = cfg.dim) => InverseTranspose(v)

InverseTransposeInTiles ==
  \A v \in JustReturned :
     (v.phys /\ cfg.dim \in {2, 3} /\ cfg.sdim = cfg.dim /\ ~oob[v]) => InverseTranspose(v)

(***************************************************************************)
(* SpecGroup: the threads of one cooperative group of Derivatives2D or     *)
(* Derivatives3D.  A thread is <<tz, ty, tx>>; it runs the kernel body,    *)
(* one operation at a time, and waits at every barrier until all threads   *)
(* of the group have arrived.                                              *)
(*   gk     the group: its index, the memory objects whose tiles are left, *)
(*          and the outcome of the undefined accesses                      *)
(*   pc     the position of each thread in the body                        *)
(*   bar    the number of barriers the group has passed                    *)
(*   smem   the scratch objects: <<object, slot>> -> the set of            *)
(*          (component, element) inputs the value stored there depends on  *)
(*   wlog   the intermediate tensor entries written so far, per component  *)
(*   stale  a thread has read an intermediate entry not yet written for    *)
(*          its component                                                  *)
(*   out    the stores to y: element, component, point, dependencies       *)
(***************************************************************************)
Op(o, vc) == [op |-> o, vc |-> vc]

\* kernels::internal::LoadBG ends with MFEM_SYNC_THREAD
LoadBGOps == <<Op("loadbg", 0), Op("sync", 0)>>

\* kernels::internal::LoadX ends with MFEM_SYNC_THREAD
LoadXOps(vc) == <<Op("loadx", vc), Op("sync", vc)>>

Body2D(vc) ==
  LoadXOps(vc) \o <<Op("stage1", vc), Op("sync", vc), Op("stage2", vc), Op("sync", vc)>>

\* the 3D body with stage 2 directly after stage 1
Body3DNoStageSync(vc) ==
  LoadXOps(vc) \o <<Op("stage1", vc), Op("stage2", vc), Op("sync", vc),
                    Op("stage3", vc), Op("sync", vc)>>

Body3D(vc) ==
  LoadXOps(vc) \o <<Op("stage1", vc), Op("sync", vc), Op("stage2", vc), Op("sync", vc),
                    Op("stage3", vc), Op("sync", vc)>>

RECURSIVE Unroll(_, _)
Unroll(c, vc) ==
  IF vc >= c.VDIM THEN <<>>
  ELSE (IF c.dim = 2 THEN Body2D(vc) ELSE Body3D(vc)) \o Unroll(c, vc + 1)

Program(c) == LoadBGOps \o Unroll(c, 0)

\* the threads of the group that run the body
Threads(c, grp) ==
  (IF c.dim = 2 THEN ActiveZ(c, grp) ELSE 0..c.Q1D - 1) \X (0..c.Q1D - 1) \X (0..c.Q1D - 1)

ElemOf(c, grp, t) == IF c.dim = 2 THEN grp * c.NBZ + t[1] ELSE grp

NThreads(c) == IF c.dim = 2 THEN c.NBZ * c.Q1D * c.Q1D ELSE c.Q1D * c.Q1D * c.Q1D

GroupConfigs ==
  { c \in Configs : /\ c.dim \in {2, 3} /\ c.sdim = c.dim
                     /\ NThreads(c) <= MaxThreads
                     /\ (c.dim = 3 => c.NE = 1) }

At(t, o) == pc[t] <= Len(Program(cfg)) /\ Program(cfg)[pc[t]].op = o
VcOf(t) == Program(cfg)[pc[t]].vc

\* the dependencies of the value a read of the slot returns
Rd(obj, a) ==
  IF gk.haz[obj] /\ ~gk.nd.keep THEN {"junk"}
  ELSE IF <<obj, a>> \in DOMAIN smem THEN smem[<<obj, a>>] ELSE {"uninit"}

RdBG(d, q) == Rd("BG", BAddr(cfg, d, q)) \cup Rd("BG", GAddr(cfg, d, q))

Advance(t) == pc' = [pc EXCEPT ![t] = @ + 1]

InitGroup ==
  /\ cfg \in GroupConfigs
  /\ b = <<>> /\ g = <<>> /\ x = <<>> /\ j = <<>>
  /\ y = [v \in Variants |-> <<>>]
  /\ wr = [v \in Variants |-> {}]
  /\ oob = [v \in Variants |-> FALSE]
  /\ done = {}
  /\ \E grp \in 0..NGroups(cfg) - 1 :
       \E nd \in (IF OutOfTile(cfg) THEN Nondet ELSE { n \in Nondet : n.keep }) :
         /\ gk = [grp |-> grp, nd |-> nd, haz |-> Hazards(cfg)]
         /\ pc = [t \in Threads(cfg, grp) |-> 1]
  /\ bar = 0 /\ smem = <<>> /\ wlog = {} /\ stale = FALSE /\ out = {}

Frame == UNCHANGED <<cfg, b, g, x, j, y, wr, oob, done, gk, bar>>

\* LoadBG: the threads with tidz = 0 store B(d,q) and G(d,q)
LoadBGStep(t) ==
  /\ At(t, "loadbg")
  /\ smem' = FnOf(IF t[1] # 0 THEN {}
                  ELSE UNION { { << <<"BG", BAddr(cfg, p[1], p[2])>>, {} >>,
                                 << <<"BG", GAddr(cfg, p[1], p[2])>>, {} >> } :
                               p \in ForeachThread(t[2], cfg.Q1D, cfg.D1D)
                                       \X ForeachThread(t[3], cfg.Q1D, cfg.Q1D) }) @@ smem
  /\ Advance(t)
  /\ Frame /\ UNCHANGED <<wlog, stale, out>>

LoadX2DStep(t) ==
  /\ cfg.dim = 2 /\ At(t, "loadx")
  /\ smem' = FnOf({ << <<"XY", X2Addr(cfg, t[1], p[2], p[1])>>,
                       { <<VcOf(t), ElemOf(cfg, gk.grp, t)>> } >> :
                    p \in ForeachThread(t[2], cfg.Q1D, cfg.D1D)
                            \X ForeachThread(t[3], cfg.Q1D, cfg.D1D) }) @@ smem
  /\ Advance(t)
  /\ Frame /\ UNCHANGED <<wlog, stale, out>>

\* for dy of thread y, qx of thread x: DQ0(dy,qx), DQ1(dy,qx) from X(.,dy), B(.,qx), G(.,qx)
Stage1_2DStep(t) ==
  /\ cfg.dim = 2 /\ At(t, "stage1")
  /\ LET P == ForeachThread(t[2], cfg.Q1D, cfg.D1D) \X ForeachThread(t[3], cfg.Q1D, cfg.Q1D)
         dep(p) == UNION { Rd("XY", X2Addr(cfg, t[1], dx, p[1])) \cup RdBG(dx, p[2]) :
                           dx \in 0..cfg.D1D - 1 }
     IN  /\ smem' = FnOf(UNION { { << <<"s_DQ", DQAddr(cfg, 0, t[1], p[1], p[2])>>, dep(p) >>,
                                   << <<"s_DQ", DQAddr(cfg, 1, t[1], p[1], p[2])>>, dep(p) >> } :
                                 p \in P }) @@ smem
         /\ wlog' = wlog \cup { <<"DQ", t[1], p[1], p[2], VcOf(t)>> : p \in P }
  /\ Advance(t)
  /\ Frame /\ UNCHANGED <<stale, out>>

\* for qy of thread y, qx of thread x: y(.., qx, qy, ..) from DQ0(.,qx), DQ1(.,qx), B(.,qy), G(.,qy)
Stage2_2DStep(t) ==
  /\ cfg.dim = 2 /\ At(t, "stage2")
  /\ LET P == ForeachThread(t[2], cfg.Q1D, cfg.Q1D) \X ForeachThread(t[3], cfg.Q1D, cfg.Q1D)
         dep(p) == UNION { Rd("s_DQ", DQAddr(cfg, 0, t[1], dy, p[2]))
                             \cup Rd("s_DQ", DQAddr(cfg, 1, t[1], dy, p[2]))
                             \cup RdBG(dy, p[1]) : dy \in 0..cfg.D1D - 1 }
     IN  /\ out' = out \cup { [e |-> ElemOf(cfg, gk.grp, t), vc |-> VcOf(t),
                               q |-> <<p[2], p[1]>>, deps |-> dep(p)] : p \in P }
         /\ stale' = (stale \/ \E p \in P : \E dy \in 0..cfg.D1D - 1 :
                                   <<"DQ", t[1], dy, p[2], VcOf(t)>> \notin wlog)
  /\ Advance(t)
  /\ Frame /\ UNCHANGED <<smem, wlog>>

LoadX3DStep(t) ==
  /\ cfg.dim = 3 /\ At(t, "loadx")
  /\ smem' = FnOf({ << <<"sm0", X3Addr(cfg, p[3], p[2], p[1])>>,
                       { <<VcOf(t), ElemOf(cfg, gk.grp, t)>> } >> :
                    p \in ForeachThread(t[1], cfg.Q1D, cfg.D1D)
                            \X ForeachThread(t[2], cfg.Q1D, cfg.D1D)
                            \X ForeachThread(t[3], cfg.Q1D, cfg.D1D) }) @@ smem
  /\ Advance(t)
  /\ Frame /\ UNCHANGED <<wlog, stale, out>>

\* for dz, dy, qx of the thread: DDQ0(dz,dy,qx), DDQ1(dz,dy,qx) from X(.,dy,dz), B(.,qx), G(.,qx)
Stage1_3DStep(t) ==
  /\ cfg.dim = 3 /\ At(t, "stage1")
  /\ LET P == ForeachThread(t[1], cfg.Q1D, cfg.D1D)
                \X ForeachThread(t[2], cfg.Q1D, cfg.D1D)
                \X ForeachThread(t[3], cfg.Q1D, cfg.Q1D)
         dep(p) == UNION { Rd("sm0", X3Addr(cfg, dx, p[2], p[1])) \cup RdBG(dx, p[3]) :
                           dx \in 0..cfg.D1D - 1 }
     IN  /\ smem' = FnOf(UNION { { << <<"sm0", DDQAddr(cfg, 0, p[1], p[2], p[3])>>, dep(p) >>,
                                   << <<"sm0", DDQAddr(cfg, 1, p[1], p[2], p[3])>>, dep(p) >> } :
                                 p \in P }) @@ smem
         /\ wlog' = wlog \cup { <<"DDQ", p[1], p[2], p[3], VcOf(t)>> : p \in P }
  /\ Advance(t)
  /\ Frame /\ UNCHANGED <<stale, out>>

\* for dz, qy, qx of the thread: DQQ0..2(dz,qy,qx) from DDQ0(dz,.,qx), DDQ1(dz,.,qx), B(.,qy), G(.,qy)
Stage2_3DStep(t) ==
  /\ cfg.dim = 3 /\ At(t, "stage2")
  /\ LET P == ForeachThread(t[1], cfg.Q1D, cfg.D1D)
                \X ForeachThread(t[2], cfg.Q1D, cfg.Q1D)
                \X ForeachThread(t[3], cfg.Q1D, cfg.Q1D)
         dep(p) == UNION { Rd("sm0", DDQAddr(cfg, 0, p[1], dy, p[3]))
                             \cup Rd("sm0", DDQAddr(cfg, 1, p[1], dy, p[3]))
                             \cup RdBG(dy, p[2]) : dy \in 0..cfg.D1D - 1 }
     IN  /\ smem' = FnOf(UNION { { << <<"sm1", DQQAddr(cfg, k, p[1], p[2], p[3])>>, dep(p) >> :
                                   k \in 0..2 } : p \in P }) @@ smem
         /\ wlog' = wlog \cup { <<"DQQ", p[1], p[2], p[3], VcOf(t)>> : p \in P }
         /\ stale' = (stale \/ \E p \in P : \E dy \in 0..cfg.D1D - 1 :
                                   <<"DDQ", p[1], dy, p[3], VcOf(t)>> \notin wlog)
  /\ Advance(t)
  /\ Frame /\ UNCHANGED out

\* for qz, qy, qx of the thread: y(.., qx, qy, qz, ..) from DQQ0..2(.,qy,qx), B(.,qz), G(.,qz)
Stage3_3DStep(t) ==
  /\ cfg.dim = 3 /\ At(t, "stage3")
  /\ LET P == ForeachThread(t[1], cfg.Q1D, cfg.Q1D)
                \X ForeachThread(t[2], cfg.Q1D, cfg.Q1D)
                \X ForeachThread(t[3], cfg.Q1D, cfg.Q1D)
         dep(p) == UNION { UNION { Rd("sm1", DQQAddr(cfg, k, dz, p[2], p[3])) : k \in 0..2 }
                             \cup RdBG(dz, p[1]) : dz \in 0..cfg.D1D - 1 }
     IN  /\ out' = out \cup { [e |-> ElemOf(cfg, gk.grp, t), vc |-> VcOf(t),
                               q |-> <<p[3], p[2], p[1]>>, deps |-> dep(p)] : p \in P }
         /\ stale' = (stale \/ \E p \in P : \E dz \in 0..cfg.D1D - 1 :
                                   <<"DQQ", dz, p[2], p[3], VcOf(t)>> \notin wlog)
  /\ Advance(t)
  /\ Frame /\ UNCHANGED <<smem, wlog>>

\* MFEM_SYNC_THREAD: no thread leaves the barrier before all have arrived
SyncThread ==
  /\ \A t \in DOMAIN pc : At(t, "sync")
  /\ \A t1 \in DOMAIN pc, t2 \in DOMAIN pc : pc[t1] = pc[t2]
  /\ pc' = [t \in DOMAIN pc |-> pc[t] + 1]
  /\ bar' = bar + 1
  /\ UNCHANGED <<cfg, b, g, x, j, y, wr, oob, done, gk, smem, wlog, stale, out>>

LoadBGThread == \E t \in DOMAIN pc : LoadBGStep(t)
LoadX2DThread == \E t \in DOMAIN pc : LoadX2DStep(t)
Stage1_2DThread == \E t \in DOMAIN pc : Stage1_2DStep(t)
Stage2_2DThread == \E t \in DOMAIN pc : Stage2_2DStep(t)
LoadX3DThread == \E t \in DOMAIN pc : LoadX3DStep(t)
Stage1_3DThread == \E t \in DOMAIN pc : Stage1_3DStep(t)
Stage2_3DThread == \E t \in DOMAIN pc : Stage2_3DStep(t)
Stage3_3DThread == \E t \in DOMAIN pc : Stage3_3DStep(t)

NextGroup ==
  \/ LoadBGThread \/ SyncThread
  \/ LoadX2DThread \/ Stage1_2DThread \/ Stage2_2DThread
  \/ LoadX3DThread \/ Stage1_3DThread \/ Stage2_3DThread \/ Stage3_3DThread

SpecGroup == InitGroup /\ [][NextGroup]_vars

(***************************************************************************)
(* Properties of a cooperative group.                                      *)
(***************************************************************************)
\* C2: under every interleaving of the threads of a group, no thread reads an
\* entry of DQ0/DQ1 (2D) or of DDQ0/DDQ1, DQQ0/DQQ1/DQQ2 (3D) before the thread
\* that produces it has written it for the same component.
C2_NoStaleRead == ~stale

\* a group of several threads has run the last stage of its second component
C2_Witness ==
  /\ cfg.dim = 3 /\ cfg.VDIM = 2 /\ cfg.Q1D = 2 /\ cfg.D1D = 3 /\ ~stale
  /\ \E o \in out : o.vc = 1
  /\ \E t \in DOMAIN pc : pc[t] > Len(Program(cfg))

\* the dependencies of every stored value are the inputs of its own
\* component and element
OwnInputsOnly == \A o \in out : o.deps \subseteq { <<o.vc, o.e>> }

\* C9: under every interleaving, the values stored for element e and component
\* c depend only on X(.,c,e), the tables and J(.,e), whatever the other
\* components and the other elements of the group hold.
C9_DependsOnOwnInputs == OwnInputsOnly

DependsOnOwnInputsInTiles == ~OutOfTile(cfg) => OwnInputsOnly

====
